---- MODULE Spec2Model ----
(***************************************************************************)
(* Model of etl/wiki.py: WikiSession, the session that uploads a           *)
(* competition (sheet, tocs, attachments) to a wiki and creates the pages. *)
(*                                                                         *)
(* The remote wiki is the function `pages` (title -> content) and the log  *)
(* `calls` of the calls issued through self.site.  Every call through      *)
(* self.site can fail; the failure is an input of the step that issues it. *)
(***************************************************************************)
EXTENDS Integers, Sequences, FiniteSets, TLC

\* ------------------------------------------------------------------ bounds
MaxRecords == 2
MaxTocs == 2
MaxAttachments == 3

\* ------------------------------------------------------- values and inputs
\* Python's None (a cell that is absent, a parameter set to None).
None == "<None>"

\* self.competition_name, set by the constructor.
competition_name == "Competition"

\* comp.key_column_name
key_column_name == "Application #"

\* Values of the MediaWikiTitleAdder.title_column_name cell of a proposal.
RecordTitles == {"A", "B"}
TitleValues == RecordTitles \cup {"", None}

\* Values of toc.name.
TocNames == {"T", "A"}

\* The order in which the caller of a run invokes the methods of the session.
Protocol == <<"upload_sheet", "upload_attachments">>

\* Titles of the pages of the remote wiki.
PageTitles == RecordTitles \cup TocNames

\* proposal.key() of the k-th proposal of comp.ordered_proposals().
Key(k) == "p" \o ToString(k)

\* Content of a remote page: absent (p.exists is false), a page written by
\* hand, or a body generated by the pipeline.
Absent == [kind |-> "absent", ns |-> "", name |-> ""]
Manual == [kind |-> "manual", ns |-> "", name |-> ""]

\* "... {{ #tdcrender:%s/toc/%s.mwiki }}" % (self.competition_name, toc.name)
TocBody(name) == [kind |-> "toc", ns |-> competition_name, name |-> name]

\* "... {{ #tdcrender:%s/id/%s.mwiki }}" % (self.competition_name, proposal.key())
IdBody(key) == [kind |-> "id", ns |-> competition_name, name |-> key]

\* comp.ordered_proposals(): n proposals, the k-th with key Key(k).
ProposalSeqs ==
  UNION { { [k \in 1..n |-> [key |-> Key(k), title |-> f[k]]] :
              f \in [1..n -> TitleValues] } : n \in 0..MaxRecords }

\* comp.tocs: tocs with a name and a raw() flag.
Tocs == {[name |-> "T", raw |-> FALSE], [name |-> "A", raw |-> TRUE]}
TocSeqs == UNION { [1..n -> Tocs] : n \in 0..MaxTocs }

\* The competition handed to upload_sheet, create_pages and sanity_check_wiki.
Competitions == [proposals : ProposalSeqs, tocs : TocSeqs]

\* The k-th competition.Attachment of the lists handed to upload_attachments:
\* the empty list and the list of MaxAttachments attachments.
Attachment(k) ==
  [key |-> Key(k), column_name |-> "Attachments", file |-> "doc" \o ToString(k) \o ".pdf"]
AttachmentLists == { [k \in 1..n |-> Attachment(k)] : n \in {0, MaxAttachments} }

\* Bodies handed to a direct create_page call.
Bodies == {TocBody("T")}

\* ------------------------------------------------------------------- state
VARIABLES
  csv_only,     \* self.csv_only
  pages,        \* the remote wiki: title -> content
  calls,        \* the calls issued through self.site since the caller began, in order
  out,          \* the lines printed since the caller began
  pc,           \* position of the running method, "idle" between methods
  i,            \* index of the loop of the running method
  ops,          \* the methods the caller has invoked, in order
  comp,         \* the caller's competition
  attachments,  \* the list handed to the running upload_attachments
  args,         \* the arguments of the last direct create_page call
  err           \* the exception the last method raised to the caller

vars == <<csv_only, pages, calls, out, pc, i, ops, comp, attachments, args, err>>

\* The method the caller invoked last.
op == IF ops = <<>> THEN "none" ELSE ops[Len(ops)]

\* ------------------------------------------------------------ calls issued
SheetCall(ok) ==
  [action |-> "torquedataconnectuploadsheet", ok |-> ok,
   params |-> [format |-> "json", object_name |-> "proposal",
               sheet_name |-> competition_name, key_column |-> key_column_name]]

\* The toc upload with raw_toc spelled "false" for a toc that is not raw.
TocCall_false(toc, ok) ==
  [action |-> "torquedataconnectuploadtoc", ok |-> ok,
   params |-> [format |-> "json", sheet_name |-> competition_name,
               toc_name |-> toc.name,
               raw_toc |-> IF toc.raw THEN "true" ELSE "false"]]

TocCall(toc, ok) ==
  [action |-> "torquedataconnectuploadtoc", ok |-> ok,
   params |-> [format |-> "json", sheet_name |-> competition_name,
               toc_name |-> toc.name,
               raw_toc |-> IF toc.raw THEN "true" ELSE None]]

\* The attachment upload keyed to the first proposal whatever the attachment.
AttachmentCall_first_key(a, ok) ==
  [action |-> "torquedataconnectuploadattachment", ok |-> ok,
   params |-> [format |-> "json", sheet_name |-> competition_name,
               object_id |-> Key(1), permissions_column |-> a.column_name,
               attachment_name |-> a.file]]

AttachmentCall(a, ok) ==
  [action |-> "torquedataconnectuploadattachment", ok |-> ok,
   params |-> [format |-> "json", sheet_name |-> competition_name,
               object_id |-> a.key, permissions_column |-> a.column_name,
               attachment_name |-> a.file]]

\* self.site.pages[title]
FetchCall(title, ok) == [action |-> "fetch", ok |-> ok, title |-> title]

\* p.save(body)
SaveCall(title, body, ok) == [action |-> "save", ok |-> ok, title |-> title, body |-> body]

\* self.site.allpages() and the titles it returned
ListCall(ok, result) == [action |-> "allpages", ok |-> ok, result |-> result]

\* p.exists
Exists(ps, title) == ps[title] # Absent


\* ---------------------------------------------------------------- methods
Range(s) == { s[k] : k \in 1..Len(s) }

\* create_page without the "not p.exists" test: the body is saved always.
create_page_overwrite(ps, page_title, body, create_if_exists, fail) ==
  IF page_title = None \/ page_title = ""
  THEN [pages |-> ps, calls |-> <<>>, out |-> <<>>]
  ELSE IF fail = "fetch"
  THEN [pages |-> ps,
        calls |-> <<FetchCall(page_title, FALSE)>>,
        out |-> <<page_title \o " failed to save">>]
  ELSE IF fail = "save"
  THEN [pages |-> ps,
        calls |-> <<FetchCall(page_title, TRUE), SaveCall(page_title, body, FALSE)>>,
        out |-> <<page_title \o " failed to save">>]
  ELSE [pages |-> [ps EXCEPT ![page_title] = body],
        calls |-> <<FetchCall(page_title, TRUE), SaveCall(page_title, body, TRUE)>>,
        out |-> <<>>]

\* create_page(self, page_title, body, create_if_exists=False); fail is the
\* call of the method that raises: "fetch" (self.site.pages[page_title] or
\* p.exists), "save" (p.save) or "none".
\* create_page returning early for a title of None only: the empty title is
\* fetched, which fails, and the failure is printed.
create_page_none_only(ps, page_title, body, create_if_exists, fail) ==
  IF page_title = None
  THEN [pages |-> ps, calls |-> <<>>, out |-> <<>>]
  ELSE IF page_title = ""
  THEN [pages |-> ps,
        calls |-> <<FetchCall(page_title, FALSE)>>,
        out |-> <<page_title \o " failed to save">>]
  ELSE IF fail = "fetch"
  THEN [pages |-> ps,
        calls |-> <<FetchCall(page_title, FALSE)>>,
        out |-> <<page_title \o " failed to save">>]
  ELSE IF ~Exists(ps, page_title) \/ create_if_exists
  THEN IF fail = "save"
       THEN [pages |-> ps,
             calls |-> <<FetchCall(page_title, TRUE), SaveCall(page_title, body, FALSE)>>,
             out |-> <<page_title \o " failed to save">>]
       ELSE [pages |-> [ps EXCEPT ![page_title] = body],
             calls |-> <<FetchCall(page_title, TRUE), SaveCall(page_title, body, TRUE)>>,
             out |-> <<>>]
  ELSE [pages |-> ps, calls |-> <<FetchCall(page_title, TRUE)>>, out |-> <<>>]

create_page(ps, page_title, body, create_if_exists, fail) ==
  IF page_title = None \/ page_title = ""
  THEN [pages |-> ps, calls |-> <<>>, out |-> <<>>]
  ELSE IF fail = "fetch"
  THEN [pages |-> ps,
        calls |-> <<FetchCall(page_title, FALSE)>>,
        out |-> <<page_title \o " failed to save">>]
  ELSE IF ~Exists(ps, page_title) \/ create_if_exists
  THEN IF fail = "save"
       THEN [pages |-> ps,
             calls |-> <<FetchCall(page_title, TRUE), SaveCall(page_title, body, FALSE)>>,
             out |-> <<page_title \o " failed to save">>]
       ELSE [pages |-> [ps EXCEPT ![page_title] = body],
             calls |-> <<FetchCall(page_title, TRUE), SaveCall(page_title, body, TRUE)>>,
             out |-> <<>>]
  ELSE [pages |-> ps, calls |-> <<FetchCall(page_title, TRUE)>>, out |-> <<>>]

\* upload_toc without the "if not p.exists" test: the page is saved always.
upload_toc_clobber(ps, toc, fail) ==
  IF fail = "upload"
  THEN [pages |-> ps, calls |-> <<TocCall(toc, FALSE)>>, err |-> "TransportError"]
  ELSE IF fail = "fetch"
  THEN [pages |-> ps,
        calls |-> <<TocCall(toc, TRUE), FetchCall(toc.name, FALSE)>>,
        err |-> "TransportError"]
  ELSE IF fail = "save"
  THEN [pages |-> ps,
        calls |-> <<TocCall(toc, TRUE), FetchCall(toc.name, TRUE),
                    SaveCall(toc.name, TocBody(toc.name), FALSE)>>,
        err |-> "TransportError"]
  ELSE [pages |-> [ps EXCEPT ![toc.name] = TocBody(toc.name)],
        calls |-> <<TocCall(toc, TRUE), FetchCall(toc.name, TRUE),
                    SaveCall(toc.name, TocBody(toc.name), TRUE)>>,
        err |-> "none"]

\* upload_toc(self, toc); fail is the call of the method that raises:
\* "upload" (raw_call), "fetch" (self.site.pages[toc.name] or p.exists),
\* "save" (p.save) or "none".  Nothing is caught: err is what propagates.
\* upload_toc going on to its page when the upload of the toc has failed.
upload_toc_swallow(ps, toc, fail) ==
  IF fail = "upload"
  THEN [pages |-> ps,
        calls |-> <<TocCall(toc, FALSE), FetchCall(toc.name, TRUE)>>,
        err |-> "none"]
  ELSE IF fail = "fetch"
  THEN [pages |-> ps,
        calls |-> <<TocCall(toc, TRUE), FetchCall(toc.name, FALSE)>>,
        err |-> "TransportError"]
  ELSE IF ~Exists(ps, toc.name)
  THEN IF fail = "save"
       THEN [pages |-> ps,
             calls |-> <<TocCall(toc, TRUE), FetchCall(toc.name, TRUE),
                         SaveCall(toc.name, TocBody(toc.name), FALSE)>>,
             err |-> "TransportError"]
       ELSE [pages |-> [ps EXCEPT ![toc.name] = TocBody(toc.name)],
             calls |-> <<TocCall(toc, TRUE), FetchCall(toc.name, TRUE),
                         SaveCall(toc.name, TocBody(toc.name), TRUE)>>,
             err |-> "none"]
  ELSE [pages |-> ps,
        calls |-> <<TocCall(toc, TRUE), FetchCall(toc.name, TRUE)>>,
        err |-> "none"]

upload_toc(ps, toc, fail) ==
  IF fail = "upload"
  THEN [pages |-> ps, calls |-> <<TocCall(toc, FALSE)>>, err |-> "TransportError"]
  ELSE IF fail = "fetch"
  THEN [pages |-> ps,
        calls |-> <<TocCall(toc, TRUE), FetchCall(toc.name, FALSE)>>,
        err |-> "TransportError"]
  ELSE IF ~Exists(ps, toc.name)
  THEN IF fail = "save"
       THEN [pages |-> ps,
             calls |-> <<TocCall(toc, TRUE), FetchCall(toc.name, TRUE),
                         SaveCall(toc.name, TocBody(toc.name), FALSE)>>,
             err |-> "TransportError"]
       ELSE [pages |-> [ps EXCEPT ![toc.name] = TocBody(toc.name)],
             calls |-> <<TocCall(toc, TRUE), FetchCall(toc.name, TRUE),
                         SaveCall(toc.name, TocBody(toc.name), TRUE)>>,
             err |-> "none"]
  ELSE [pages |-> ps,
        calls |-> <<TocCall(toc, TRUE), FetchCall(toc.name, TRUE)>>,
        err |-> "none"]

\* added_pages of sanity_check_wiki: the title cell of every proposal.
added_pages(c) == [k \in 1..Len(c.proposals) |-> c.proposals[k].title]

\* The loop of sanity_check_wiki with its test inverted ("in" for "not in").
RECURSIVE Suspicious_inverted(_, _)
Suspicious_inverted(all_pages, added) ==
  IF all_pages = <<>>
  THEN <<>>
  ELSE (IF Head(all_pages) \in Range(added) THEN <<Head(all_pages)>> ELSE <<>>)
       \o Suspicious_inverted(Tail(all_pages), added)

\* The loop of sanity_check_wiki over all_pages: the titles it prints.
RECURSIVE Suspicious(_, _)
Suspicious(all_pages, added) ==
  IF all_pages = <<>>
  THEN <<>>
  ELSE (IF Head(all_pages) \notin Range(added) THEN <<Head(all_pages)>> ELSE <<>>)
       \o Suspicious(Tail(all_pages), added)

Header == "The following pages are in the wiki, but not added via the etl pipeline"

\* What self.site.allpages() can return: the existing pages, in the order the
\* wiki lists them.
Listings(ps) ==
  LET E == { t \in PageTitles : Exists(ps, t) }
  IN { s \in [1..Cardinality(E) -> E] : \A a, b \in 1..Cardinality(E) : a # b => s[a] # s[b] }

\* The listing a wiki that lists its pages by title returns.
TitleOrder == <<"A", "B", "T">>
ByTitle(ps) ==
  LET Listed(t) == Exists(ps, t) IN SelectSeq(TitleOrder, Listed)

\* ------------------------------------------------- control flow of a method
\* upload_sheet returning after create_pages, without the audit.
AfterPages_noaudit(o) == [pc |-> "idle", i |-> 0]

\* After create_pages returns: upload_sheet goes on to sanity_check_wiki.
AfterPages(o) == [pc |-> IF o = "upload_sheet" THEN "audit" ELSE "idle", i |-> 0]

\* Entering the loop of create_pages.
EnterPages(c, o) ==
  IF Len(c.proposals) > 0 THEN [pc |-> "pages", i |-> 1] ELSE AfterPages(o)

\* upload_sheet after the loop over comp.tocs: "if not self.csv_only".
AfterTocs(c, csv) ==
  IF ~csv THEN EnterPages(c, "upload_sheet") ELSE [pc |-> "audit", i |-> 0]

\* upload_sheet creating the pages right after the sheet upload.
EnterTocs_pages_first(c, csv) == AfterTocs(c, csv)

\* upload_sheet after the sheet upload: the loop over comp.tocs.
EnterTocs(c, csv) ==
  IF Len(c.tocs) > 0 THEN [pc |-> "tocs", i |-> 1] ELSE AfterTocs(c, csv)

\* An exception leaves the running method and reaches the caller.
Raise(e) == pc' = "idle" /\ i' = 0 /\ err' = e

Goto(n) == pc' = n.pc /\ i' = n.i

\* The caller of a run invokes the next method of Protocol; an exception of
\* the method before ends the run.
Invoke(o) ==
  /\ pc = "idle"
  /\ err = "none"
  /\ Len(ops) < Len(Protocol)
  /\ Protocol[Len(ops) + 1] = o
  /\ ops' = Append(ops, o)

\* A caller invokes one method o on its own.
InvokeAlone(o) ==
  /\ pc = "idle"
  /\ ops' = <<o>>

\* ------------------------------------------------------------------ actions
Init ==
  /\ csv_only = FALSE
  /\ pages \in [PageTitles -> {Absent, Manual}]
  /\ calls = <<>>
  /\ out = <<>>
  /\ pc = "idle"
  /\ i = 0
  /\ ops = <<>>
  /\ comp \in Competitions
  /\ attachments = <<>>
  /\ args = [page_title |-> None, body |-> Absent, create_if_exists |-> FALSE]
  /\ err = "none"

\* The caller sets session.csv_only before it uploads anything.
SetCsvOnly ==
  /\ pc = "idle"
  /\ ops = <<>>
  /\ ~csv_only
  /\ csv_only' = TRUE
  /\ UNCHANGED <<pages, calls, out, pc, i, ops, comp, attachments, args, err>>

\* upload_sheet(comp) up to the return of the sheet upload call.
UploadSheet(fail) ==
  /\ Invoke("upload_sheet")
  /\ calls' = Append(calls, SheetCall(~fail))
  /\ IF fail
     THEN Raise("TransportError")
     ELSE err' = "none" /\ Goto(EnterTocs(comp, csv_only))
  /\ UNCHANGED <<csv_only, pages, out, comp, attachments, args>>

\* One iteration of "for toc in comp.tocs: self.upload_toc(toc)".
UploadToc(fail) ==
  /\ pc = "tocs"
  /\ LET r == upload_toc(pages, comp.tocs[i], fail)
     IN /\ pages' = r.pages
        /\ calls' = calls \o r.calls
        /\ IF r.err # "none"
           THEN Raise(r.err)
           ELSE /\ err' = err
                /\ IF i < Len(comp.tocs)
                   THEN Goto([pc |-> "tocs", i |-> i + 1])
                   ELSE Goto(AfterTocs(comp, csv_only))
  /\ UNCHANGED <<csv_only, out, ops, comp, attachments, args>>

\* The loop of create_pages with a create_page that lets its exception out.
CreatePages_uncaught(fail) ==
  /\ pc = "pages"
  /\ LET proposal == comp.proposals[i]
         page_title == proposal.title
         r == create_page(pages, page_title, IdBody(proposal.key), FALSE, fail)
     IN IF page_title = None
        THEN /\ Raise("Exception: Competition needs the page title adder run")
             /\ UNCHANGED <<pages, calls, out>>
        ELSE /\ pages' = r.pages
             /\ calls' = calls \o r.calls
             /\ out' = out
             /\ IF r.out # <<>>
                THEN Raise("TransportError")
                ELSE /\ err' = err
                     /\ IF i < Len(comp.proposals)
                        THEN Goto([pc |-> "pages", i |-> i + 1])
                        ELSE Goto(AfterPages(op))
  /\ UNCHANGED <<csv_only, ops, comp, attachments, args>>

\* The loop of create_pages going past a proposal without title.
CreatePages_skip_untitled(fail) ==
  /\ pc = "pages"
  /\ LET proposal == comp.proposals[i]
         page_title == proposal.title
         r == create_page(pages, page_title, IdBody(proposal.key), FALSE, fail)
     IN /\ IF page_title = None
           THEN UNCHANGED <<pages, calls, out>>
           ELSE /\ pages' = r.pages
                /\ calls' = calls \o r.calls
                /\ out' = out \o r.out
        /\ err' = err
        /\ IF i < Len(comp.proposals)
           THEN Goto([pc |-> "pages", i |-> i + 1])
           ELSE Goto(AfterPages(op))
  /\ UNCHANGED <<csv_only, ops, comp, attachments, args>>

\* One iteration of the loop of create_pages.
\* create_pages giving every page the key of the first proposal.
CreatePages_first_key(fail) ==
  /\ pc = "pages"
  /\ LET proposal == comp.proposals[i]
         page_title == proposal.title
         r == create_page(pages, page_title, IdBody(comp.proposals[1].key), FALSE, fail)
     IN IF page_title = None
        THEN /\ Raise("Exception: Competition needs the page title adder run")
             /\ UNCHANGED <<pages, calls, out>>
        ELSE /\ pages' = r.pages
             /\ calls' = calls \o r.calls
             /\ out' = out \o r.out
             /\ err' = err
             /\ IF i < Len(comp.proposals)
                THEN Goto([pc |-> "pages", i |-> i + 1])
                ELSE Goto(AfterPages(op))
  /\ UNCHANGED <<csv_only, ops, comp, attachments, args>>

CreatePages(fail) ==
  /\ pc = "pages"
  /\ LET proposal == comp.proposals[i]
         page_title == proposal.title
         r == create_page(pages, page_title, IdBody(proposal.key), FALSE, fail)
     IN IF page_title = None
        THEN /\ Raise("Exception: Competition needs the page title adder run")
             /\ UNCHANGED <<pages, calls, out>>
        ELSE /\ pages' = r.pages
             /\ calls' = calls \o r.calls
             /\ out' = out \o r.out
             /\ err' = err
             /\ IF i < Len(comp.proposals)
                THEN Goto([pc |-> "pages", i |-> i + 1])
                ELSE Goto(AfterPages(op))
  /\ UNCHANGED <<csv_only, ops, comp, attachments, args>>

\* sanity_check_wiki deleting the pages it prints.
Audit_delete(cs, o, fail, all_pages) ==
  /\ IF fail
     THEN /\ calls' = Append(cs, ListCall(FALSE, <<>>))
          /\ out' = o
          /\ Raise("TransportError")
          /\ pages' = pages
     ELSE /\ calls' = Append(cs, ListCall(TRUE, all_pages))
          /\ out' = o \o <<Header>> \o Suspicious(all_pages, added_pages(comp))
          /\ pc' = "idle"
          /\ i' = 0
          /\ err' = "none"
          /\ pages' = [t \in PageTitles |->
                        IF t \in Range(Suspicious(all_pages, added_pages(comp)))
                        THEN Absent ELSE pages[t]]
  /\ UNCHANGED <<csv_only, comp, attachments, args>>

\* The body of sanity_check_wiki(comp), its calls and lines added to cs and o.
Audit(cs, o, fail, all_pages) ==
  /\ IF fail
     THEN /\ calls' = Append(cs, ListCall(FALSE, <<>>))
          /\ out' = o
          /\ Raise("TransportError")
     ELSE /\ calls' = Append(cs, ListCall(TRUE, all_pages))
          /\ out' = o \o <<Header>> \o Suspicious(all_pages, added_pages(comp))
          /\ pc' = "idle"
          /\ i' = 0
          /\ err' = "none"
  /\ UNCHANGED <<csv_only, pages, comp, attachments, args>>

\* "self.sanity_check_wiki(comp)" at the end of upload_sheet.
SanityCheckWiki(fail, all_pages) ==
  /\ pc = "audit"
  /\ Audit(calls, out, fail, all_pages)
  /\ UNCHANGED ops

\* upload_attachments(attachments) up to its loop.
UploadAttachments(atts) ==
  /\ Invoke("upload_attachments")
  /\ attachments' = atts
  /\ err' = "none"
  /\ IF csv_only \/ Len(atts) = 0
     THEN Goto([pc |-> "idle", i |-> 0])
     ELSE Goto([pc |-> "attach", i |-> 1])
  /\ UNCHANGED <<csv_only, pages, calls, out, comp, args>>

\* The loop of upload_attachments going on to the next attachment after a
\* failure.
UploadAttachment_continue(fail) ==
  /\ pc = "attach"
  /\ LET attachment == attachments[i]
     IN /\ out' = Append(out, "Uploading " \o attachment.file)
        /\ calls' = IF fail \in {"open", "read"}
                    THEN calls
                    ELSE Append(calls, AttachmentCall(attachment, fail = "none"))
        /\ IF i < Len(attachments)
           THEN Goto([pc |-> "attach", i |-> i + 1]) /\ err' = err
           ELSE IF fail = "none"
           THEN Goto([pc |-> "idle", i |-> 0]) /\ err' = err
           ELSE Raise("TransportError")
  /\ UNCHANGED <<csv_only, pages, ops, comp, attachments, args>>

\* One iteration of the loop of upload_attachments; fail is what raises:
\* "open" (open(attachment.path)), "read" (attachment_stream.read()),
\* "send" (raw_call) or "none".
UploadAttachment(fail) ==
  /\ pc = "attach"
  /\ LET attachment == attachments[i]
     IN /\ out' = Append(out, "Uploading " \o attachment.file)
        /\ IF fail \in {"open", "read"}
           THEN Raise("IOError") /\ calls' = calls
           ELSE IF fail = "send"
           THEN Raise("TransportError") /\ calls' = Append(calls, AttachmentCall(attachment, FALSE))
           ELSE /\ calls' = Append(calls, AttachmentCall(attachment, TRUE))
                /\ err' = err
                /\ IF i < Len(attachments)
                   THEN Goto([pc |-> "attach", i |-> i + 1])
                   ELSE Goto([pc |-> "idle", i |-> 0])
  /\ UNCHANGED <<csv_only, pages, ops, comp, attachments, args>>

\* A caller invokes sanity_check_wiki(comp) on its own.
CallSanityCheckWiki(fail, all_pages) ==
  /\ InvokeAlone("sanity_check_wiki")
  /\ Audit(<<>>, <<>>, fail, all_pages)

\* A caller invokes create_page(page_title, body[, create_if_exists]) on its own.
CreatePage(page_title, body, create_if_exists, fail) ==
  /\ InvokeAlone("create_page")
  /\ args' = [page_title |-> page_title, body |-> body, create_if_exists |-> create_if_exists]
  /\ LET r == create_page(pages, page_title, body, create_if_exists, fail)
     IN /\ pages' = r.pages
        /\ calls' = r.calls
        /\ out' = r.out
  /\ err' = "none"
  /\ UNCHANGED <<csv_only, pc, i, comp, attachments>>

\* A caller invokes create_pages(comp) on its own.
CallCreatePages ==
  /\ InvokeAlone("create_pages")
  /\ calls' = <<>>
  /\ out' = <<>>
  /\ err' = "none"
  /\ Goto(EnterPages(comp, "create_pages"))
  /\ UNCHANGED <<csv_only, pages, comp, attachments, args>>

TocFailures == {"none", "upload", "fetch", "save"}
PageFailures == {"none", "fetch", "save"}
AttachmentFailures == {"none", "open", "read", "send"}

\* A run of the pipeline: the caller sets the mode, then invokes upload_sheet
\* and upload_attachments.  The wiki of a run lists its pages by title.
Next ==
  \/ SetCsvOnly
  \/ \E fail \in BOOLEAN : UploadSheet(fail)
  \/ \E fail \in TocFailures : UploadToc(fail)
  \/ \E fail \in PageFailures : CreatePages(fail)
  \/ \E fail \in BOOLEAN : SanityCheckWiki(fail, ByTitle(pages))
  \/ \E atts \in AttachmentLists : UploadAttachments(atts)
  \/ \E fail \in AttachmentFailures : UploadAttachment(fail)

Spec == Init /\ [][Next]_vars

\* The methods create_page, create_pages and sanity_check_wiki, each invoked
\* on its own, on a competition without tocs (none of the three reads them)
\* and a wiki that lists its pages in any order.
InitAPI ==
  /\ Init
  /\ comp.tocs = <<>>

NextAPI ==
  \/ \E t \in TitleValues, b \in Bodies, c \in BOOLEAN, fail \in PageFailures :
        CreatePage(t, b, c, fail)
  \/ CallCreatePages
  \/ \E fail \in PageFailures : CreatePages(fail)
  \/ \E fail \in BOOLEAN : \E all_pages \in Listings(pages) : CallSanityCheckWiki(fail, all_pages)

SpecAPI == InitAPI /\ [][NextAPI]_vars

\* The caller of a run that has ended without an exception starts the same
\* run again: the next method of Protocol, on the same competition and wiki.
Reinvoke(o) ==
  /\ pc = "idle"
  /\ err = "none"
  /\ Len(ops) >= Len(Protocol)
  /\ Len(ops) < 2 * Len(Protocol)
  /\ Protocol[Len(ops) - Len(Protocol) + 1] = o
  /\ ops' = Append(ops, o)

\* upload_sheet(comp) of the second run, up to the return of the sheet upload.
UploadSheetAgain ==
  /\ Reinvoke("upload_sheet")
  /\ calls' = Append(calls, SheetCall(TRUE))
  /\ err' = "none"
  /\ Goto(EnterTocs(comp, csv_only))
  /\ UNCHANGED <<csv_only, pages, out, comp, attachments, args>>

\* upload_attachments(attachments) of the second run, with the list of the
\* first, up to its loop.
UploadAttachmentsAgain ==
  /\ Reinvoke("upload_attachments")
  /\ err' = "none"
  /\ IF csv_only \/ Len(attachments) = 0
     THEN Goto([pc |-> "idle", i |-> 0])
     ELSE Goto([pc |-> "attach", i |-> 1])
  /\ UNCHANGED <<csv_only, pages, calls, out, comp, attachments, args>>

\* Two runs of the pipeline one after the other in which no call fails.
NextRerun ==
  \/ SetCsvOnly
  \/ UploadSheet(FALSE)
  \/ UploadToc("none")
  \/ CreatePages("none")
  \/ SanityCheckWiki(FALSE, ByTitle(pages))
  \/ \E atts \in AttachmentLists : UploadAttachments(atts)
  \/ UploadAttachment("none")
  \/ UploadSheetAgain
  \/ UploadAttachmentsAgain

SpecRerun == Init /\ [][NextRerun]_vars

\* ------------------------------------------------------------- properties
IsFetch(c) == c.action = "fetch"
IsSave(c) == c.action = "save"
IsTocUpload(c) == c.action = "torquedataconnectuploadtoc"
IsAttachmentUpload(c) == c.action = "torquedataconnectuploadattachment"
IsListing(c) == c.action = "allpages"

\* C1: no step of a run (upload_sheet with its toc pages and record pages,
\* the audit, upload_attachments) changes the content of a page that exists
\* before the step.
C1_NoClobber ==
  [][\A t \in PageTitles : Exists(pages, t) => pages'[t] = pages[t]]_vars

\* A finished run in which a toc and a record were both named after a page
\* written by hand, and both pages were fetched and are still as written.
C1_Witness ==
  /\ ops = Protocol
  /\ pc = "idle"
  /\ err = "none"
  /\ ~csv_only
  /\ \E k \in 1..Len(comp.tocs) :
        /\ comp.tocs[k].name = "T"
        /\ pages["T"] = Manual
        /\ FetchCall("T", TRUE) \in Range(calls)
  /\ \E k \in 1..Len(comp.proposals) :
        /\ comp.proposals[k].title = "B"
        /\ pages["B"] = Manual
        /\ FetchCall("B", TRUE) \in Range(calls)

\* C2: create_page on the title of an existing page, create_if_exists false,
\* issues no save and leaves the wiki as it is, and so does a second call
\* after it; an existing page changes only when create_if_exists is true,
\* and then to the body.
C2_IdempotentCreatePage ==
  [][(pc = "idle" /\ ops' = <<"create_page">> /\ args'.page_title \in PageTitles
        /\ Exists(pages, args'.page_title))
      => /\ ~args'.create_if_exists
            => /\ pages' = pages
               /\ \A k \in 1..Len(calls') : ~IsSave(calls'[k])
               /\ \A f \in PageFailures :
                    create_page(pages', args'.page_title, args'.body, FALSE, f).pages = pages'
         /\ pages' # pages
            => /\ args'.create_if_exists
               /\ pages' = [pages EXCEPT ![args'.page_title] = args'.body]]_vars

\* create_page("A", body) has returned on a wiki where "A" was written by hand.
C2_Witness ==
  /\ ops = <<"create_page">>
  /\ args.page_title = "A"
  /\ ~args.create_if_exists
  /\ pages["A"] = Manual
  /\ calls = <<FetchCall("A", TRUE)>>

\* The titles create_page has fetched, in order.
FetchTitles(cs) ==
  LET f == SelectSeq(cs, IsFetch) IN [k \in 1..Len(f) |-> f[k].title]

\* The titles of the first n proposals for which create_page issues a fetch.
RECURSIVE PageTitlesOf(_, _)
PageTitlesOf(c, n) ==
  IF n = 0
  THEN <<>>
  ELSE PageTitlesOf(c, n - 1)
       \o (IF c.proposals[n].title \in {"", None} THEN <<>> ELSE <<c.proposals[n].title>>)

Untitled(c) == { k \in 1..Len(c.proposals) : c.proposals[k].title = None }
FirstUntitled(c) == CHOOSE k \in Untitled(c) : \A j \in Untitled(c) : k <= j

TitleError == "Exception: Competition needs the page title adder run"

\* C3 as stated: when a record of the competition lacks the title, create_pages
\* issues no fetch or save of a page for any record.
C3_NoPageCallWhenUntitled ==
  (op = "create_pages" /\ Untitled(comp) # {}) => calls = <<>>

\* C3: when a record of the competition lacks the title, create_pages raises
\* when its loop reaches the first such record: create_page has been called
\* for every record before it, and for no record from it on.
C3_FailsAtFirstUntitled ==
  (op = "create_pages" /\ Untitled(comp) # {})
    => /\ pc = "pages" => i <= FirstUntitled(comp) /\ err = "none"
       /\ pc = "idle" => err = TitleError
       /\ FetchTitles(calls) =
            PageTitlesOf(comp, (IF pc = "pages" THEN i ELSE FirstUntitled(comp)) - 1)

\* create_pages has raised at the second record after it fetched the page
\* of the first.
C3_Witness ==
  /\ op = "create_pages"
  /\ pc = "idle"
  /\ err = TitleError
  /\ FirstUntitled(comp) = 2
  /\ Len(calls) > 0

\* C4 as stated: with csv_only set, no page is saved and no attachment is
\* uploaded by upload_sheet and upload_attachments.
C4_CsvOnlySuppression ==
  csv_only => \A k \in 1..Len(calls) : ~IsSave(calls[k]) /\ ~IsAttachmentUpload(calls[k])

\* The place of title t in the listing s.
Pos(s, t) == CHOOSE k \in 1..Len(s) : s[k] = t

\* C5: sanity_check_wiki prints, after its heading, exactly the listed titles
\* that are not the title of a record, each once, in the order of the listing;
\* nothing when every listed title is the title of a record.
C5_AuditResult ==
  (op = "sanity_check_wiki" /\ err = "none")
    => LET all_pages == calls[Len(calls)].result
           report == SubSeq(out, 2, Len(out))
           expected == { comp.proposals[k].title : k \in 1..Len(comp.proposals) }
       IN /\ out[1] = Header
          /\ Range(report) = Range(all_pages) \ expected
          /\ Cardinality(Range(report)) = Len(report)
          /\ \A a, b \in 1..Len(report) :
                a < b => Pos(all_pages, report[a]) < Pos(all_pages, report[b])
          /\ Range(all_pages) \subseteq expected => report = <<>>

\* The records are titled "A" and "B", the wiki lists "A", "B" and "T", and
\* the audit has printed "T" alone.
C5_Witness ==
  /\ op = "sanity_check_wiki"
  /\ err = "none"
  /\ { comp.proposals[k].title : k \in 1..Len(comp.proposals) } = {"A", "B"}
  /\ Range(calls[Len(calls)].result) = {"A", "B", "T"}
  /\ out = <<Header, "T">>

\* The places of the toc uploads in the log.
TocPos(cs) == { j \in 1..Len(cs) : IsTocUpload(cs[j]) }

\* Every toc of the competition has been uploaded, in order, and has its page.
TocsComplete(cs, ps) ==
  LET u == SelectSeq(cs, IsTocUpload)
  IN /\ Len(u) = Len(comp.tocs)
     /\ \A k \in 1..Len(u) : u[k] = TocCall(comp.tocs[k], TRUE)
     /\ \A k \in 1..Len(comp.tocs) : Exists(ps, comp.tocs[k].name)

\* C6: in upload_sheet every call comes after the sheet upload has returned;
\* the tocs are uploaded in the order of comp.tocs, each followed by the fetch
\* of its own page before the next toc is uploaded; create_pages issues its
\* calls only when every toc has been uploaded and has its page.
C6_UploadSheetOrder ==
  [][/\ calls' # <<>>
        => /\ calls'[1].action = "torquedataconnectuploadsheet"
           /\ Len(calls') > 1 => calls'[1].ok
     /\ LET u == SelectSeq(calls', IsTocUpload)
        IN /\ Len(u) <= Len(comp.tocs)
           /\ \A k \in 1..Len(u) : u[k].params.toc_name = comp.tocs[k].name
     /\ \A j \in TocPos(calls') :
           /\ j < Len(calls')
                => /\ calls'[j].ok
                   /\ calls'[j + 1].action = "fetch"
                   /\ calls'[j + 1].title = calls'[j].params.toc_name
           /\ j > 2
                => /\ calls'[j - 1].action \in {"fetch", "save"}
                   /\ calls'[j - 1].ok
                   /\ Exists(pages', calls'[j - 1].title)
     /\ (pc = "pages" /\ calls' # calls) => TocsComplete(calls, pages)
     /\ pc' = "pages" => TocsComplete(calls', pages')]_vars

\* upload_sheet has returned after two tocs of different names and the save
\* of the page of the first record.
C6_Witness ==
  /\ ops = <<"upload_sheet">>
  /\ pc = "idle"
  /\ err = "none"
  /\ Len(comp.tocs) = 2
  /\ comp.tocs[1].name # comp.tocs[2].name
  /\ Len(comp.proposals) = 2
  /\ SaveCall("B", IdBody(Key(1)), TRUE) \in Range(calls)

IsUpload(c) ==
  c.action \in {"torquedataconnectuploadsheet", "torquedataconnectuploadtoc",
                "torquedataconnectuploadattachment"}

Failed(c) == ~c.ok

\* C8: create_pages on a competition whose records all have the title calls
\* create_page for every record in order whatever fetch or save fails: each
\* failure prints its line, the loop goes on and create_pages returns without
\* raising.
C8_BestEffortPages ==
  (op = "create_pages" /\ Untitled(comp) = {})
    => /\ err = "none"
       /\ FetchTitles(calls) =
            PageTitlesOf(comp, IF pc = "pages" THEN i - 1 ELSE Len(comp.proposals))
       /\ LET f == SelectSeq(calls, Failed)
          IN out = [k \in 1..Len(f) |-> f[k].title \o " failed to save"]

\* create_pages has returned: the fetch of the page of the first record
\* failed and the page of the second record has been saved.
C8_Witness ==
  /\ op = "create_pages"
  /\ pc = "idle"
  /\ err = "none"
  /\ Len(comp.proposals) = 2
  /\ calls[1] = FetchCall("A", FALSE)
  /\ SaveCall("B", IdBody(Key(2)), TRUE) \in Range(calls)

\* The number of attachments upload_attachments has started on.
Started ==
  LET IsUploading(l) == l \in { "Uploading " \o attachments[k].file : k \in 1..Len(attachments) }
  IN Len(SelectSeq(out, IsUploading))

\* C9: when upload_attachments raises at its k-th attachment, the attachments
\* before the k-th have been uploaded, in order; the only other upload call
\* it can have issued is the failed one of the k-th; none is issued for a
\* later attachment.
C9_FailFastAttachments ==
  (op = "upload_attachments" /\ pc = "idle" /\ err # "none")
    => LET k == Started
           ac == SelectSeq(calls, IsAttachmentUpload)
           uploaded == [j \in 1..(k - 1) |-> AttachmentCall(attachments[j], TRUE)]
       IN /\ ~csv_only
          /\ k \in 1..Len(attachments)
          /\ \/ ac = uploaded
             \/ ac = Append(uploaded, AttachmentCall(attachments[k], FALSE))

\* upload_attachments has raised at the second of three attachments.
C9_Witness ==
  /\ op = "upload_attachments"
  /\ pc = "idle"
  /\ err = "TransportError"
  /\ Len(attachments) = 3
  /\ Started = 2
  /\ calls[Len(calls)] = AttachmentCall(attachments[2], FALSE)

\* C10 as stated: the upload call of a raw toc has raw_toc "true" and the
\* upload call of a toc that is not raw has no raw_toc among its parameters.
C10_RawAbsentWhenFalse ==
  LET u == SelectSeq(calls, IsTocUpload)
  IN \A k \in 1..Len(u) :
        IF comp.tocs[k].raw
        THEN "raw_toc" \in DOMAIN u[k].params /\ u[k].params.raw_toc = "true"
        ELSE "raw_toc" \notin DOMAIN u[k].params

\* C10: the upload call of a raw toc has raw_toc "true" and the upload call
\* of a toc that is not raw has raw_toc among its parameters with the value
\* None.
C10_RawTrueOrNone ==
  LET u == SelectSeq(calls, IsTocUpload)
  IN \A k \in 1..Len(u) :
        /\ "raw_toc" \in DOMAIN u[k].params
        /\ u[k].params.raw_toc = (IF comp.tocs[k].raw THEN "true" ELSE None)

\* A raw toc and a toc that is not raw have both been uploaded.
C10_Witness ==
  LET u == SelectSeq(calls, IsTocUpload)
  IN /\ Len(u) = 2
     /\ comp.tocs[1].raw
     /\ ~comp.tocs[2].raw
     /\ u[1].params.raw_toc = "true"
     /\ u[2].params.raw_toc = None

\* C11: the audit at the end of upload_sheet issues one call, the listing of
\* the pages, and leaves the pages of the wiki, the competition and the mode
\* of the session as they are.
C11_AuditIsPureReport ==
  [][pc = "audit"
       => /\ pages' = pages
          /\ comp' = comp
          /\ csv_only' = csv_only
          /\ attachments' = attachments
          /\ Len(calls') = Len(calls) + 1
          /\ SubSeq(calls', 1, Len(calls)) = calls
          /\ IsListing(calls'[Len(calls')])]_vars

\* The audit of upload_sheet has printed the title of a page, and the page
\* is still there as it was written by hand.
C11_Witness ==
  /\ ops = <<"upload_sheet">>
  /\ pc = "idle"
  /\ err = "none"
  /\ out # <<>>
  /\ out[Len(out)] = "B"
  /\ pages["B"] = Manual
  /\ IsListing(calls[Len(calls)])

IsSheetUpload(c) == c.action = "torquedataconnectuploadsheet"

\* No call of the log has failed.
FailureFree(cs) == \A k \in 1..Len(cs) : cs[k].ok

\* C12: in a run in full mode that has ended without a failure upload_sheet
\* has issued one sheet upload, one toc upload per toc in order and at most
\* one save per title, each right after the fetch of that title; then
\* upload_attachments has issued one upload per attachment, in the order of
\* the list, each with the key, column and file of its attachment.  A save is
\* issued only for a page that is absent.
C12_CallCounts ==
  /\ [][\A k \in (Len(calls) + 1)..Len(calls') :
          IsSave(calls'[k]) => ~Exists(pages, calls'[k].title)]_vars
  /\ []((ops = Protocol /\ pc = "idle" /\ err = "none" /\ ~csv_only /\ FailureFree(calls))
          => /\ Len(SelectSeq(calls, IsSheetUpload)) = 1
             /\ SelectSeq(calls, IsTocUpload) =
                  [k \in 1..Len(comp.tocs) |-> TocCall(comp.tocs[k], TRUE)]
             /\ \A a, b \in 1..Len(calls) :
                  (IsSave(calls[a]) /\ IsSave(calls[b]) /\ calls[a].title = calls[b].title)
                    => a = b
             /\ \A a \in 1..Len(calls) :
                  IsSave(calls[a]) => calls[a - 1] = FetchCall(calls[a].title, TRUE)
             /\ LET ac == SelectSeq(calls, IsAttachmentUpload)
                IN /\ Len(ac) = Len(attachments)
                   /\ \A k \in 1..Len(ac) :
                        /\ ac[k].params.object_id = attachments[k].key
                        /\ ac[k].params.permissions_column = attachments[k].column_name
                        /\ ac[k].params.attachment_name = attachments[k].file
                        /\ ac[k].params.sheet_name = competition_name
                   /\ \A a, b \in 1..Len(calls) :
                        (IsAttachmentUpload(calls[a]) /\ ~IsAttachmentUpload(calls[b])) => b < a)

\* A run without failure has ended: two tocs, two records, three attachments,
\* and pages saved for a toc and for a record.
C12_Witness ==
  /\ ops = Protocol
  /\ pc = "idle"
  /\ err = "none"
  /\ ~csv_only
  /\ FailureFree(calls)
  /\ Len(comp.tocs) = 2
  /\ Len(comp.proposals) = 2
  /\ Len(attachments) = 3
  /\ SaveCall("T", TocBody("T"), TRUE) \in Range(calls)
  /\ SaveCall("B", IdBody(Key(2)), TRUE) \in Range(calls)
  /\ Len(SelectSeq(calls, IsAttachmentUpload)) = 3

\* C13: the second of two runs without failure on the same competition saves
\* no page and leaves every page of the wiki as the first run left it.
C13_SecondRunSavesNothing ==
  [][Len(ops') > Len(Protocol)
       => /\ pages' = pages
          /\ \A k \in (Len(calls) + 1)..Len(calls') : ~IsSave(calls'[k])]_vars

\* The second run has ended; the first had saved the pages of a toc and of a
\* record, and the second has fetched both again.
C13_Witness ==
  /\ Len(ops) = 2 * Len(Protocol)
  /\ pc = "idle"
  /\ err = "none"
  /\ ~csv_only
  /\ Len(attachments) = 3
  /\ Len(SelectSeq(calls, IsSheetUpload)) = 2
  /\ pages["T"] = TocBody("T")
  /\ pages["B"] = IdBody(Key(1))
  /\ LET f == SelectSeq(calls, IsFetch)
     IN Len(f) = 4 /\ f[3].title = "T" /\ f[4].title = "B"
  /\ Len(SelectSeq(calls, IsSave)) = 2

\* C14: when upload_sheet has ended on a competition whose records all have
\* a title field, every failed fetch or save of a page, of a toc or of a
\* record, is followed by the listing of the audit: the failure was caught
\* and the run went on.
C14_PageFailureNeverStops ==
  (ops = <<"upload_sheet">> /\ pc = "idle" /\ Untitled(comp) = {})
    => \A k \in 1..Len(calls) :
         ((IsFetch(calls[k]) \/ IsSave(calls[k])) /\ ~calls[k].ok)
           => /\ \E j \in (k + 1)..Len(calls) : IsListing(calls[j])
              /\ Len(SelectSeq(calls, IsTocUpload)) = Len(comp.tocs)

\* C15: a sheet upload or a toc upload that fails is the last call of the
\* run: the error reaches the caller of upload_sheet, and no toc upload,
\* fetch, save or listing follows it; a failed sheet upload is the only call.
C15_BulkUploadsFailFast ==
  \A k \in 1..Len(calls) :
    ((IsSheetUpload(calls[k]) \/ IsTocUpload(calls[k])) /\ ~calls[k].ok)
      => /\ k = Len(calls)
         /\ pc = "idle"
         /\ err = "TransportError"
         /\ ops = <<"upload_sheet">>
         /\ IsSheetUpload(calls[k]) => k = 1
         /\ IsTocUpload(calls[k])
              => /\ Len(SelectSeq(calls, IsTocUpload)) <= Len(comp.tocs)
                 /\ calls[k] = TocCall(comp.tocs[Len(SelectSeq(calls, IsTocUpload))], FALSE)

\* The upload of the second toc has failed after the page of the first was
\* saved; the competition has records, and none of their pages was fetched.
C15_Witness ==
  /\ ops = <<"upload_sheet">>
  /\ pc = "idle"
  /\ err = "TransportError"
  /\ ~csv_only
  /\ Len(comp.tocs) = 2
  /\ Len(comp.proposals) = 2
  /\ Len(calls) = 5
  /\ IsSave(calls[4])
  /\ calls[5] = TocCall(comp.tocs[2], FALSE)

\* C16: when upload_sheet has returned, no title printed after the header of
\* the audit is the title of a page saved in this run.
C16_AuditListsOnlyForeignPages ==
  (ops = <<"upload_sheet">> /\ pc = "idle" /\ err = "none")
    => \A k \in 1..Len(out) :
         (\E h \in 1..(k - 1) : out[h] = Header)
           => \A j \in 1..Len(calls) :
                ~(IsSave(calls[j]) /\ calls[j].ok /\ calls[j].title = out[k])

\* C17: a call of create_page with the empty title or None issues no call,
\* prints nothing, raises nothing and leaves the wiki as it is, whatever the
\* body and create_if_exists; and the step of create_pages at a record whose
\* title is the empty string does the same and goes on without raising.
C17_EmptyTitleNoOp ==
  [][/\ (pc = "idle" /\ ops' = <<"create_page">> /\ args'.page_title \in {"", None})
          => /\ pages' = pages
             /\ calls' = <<>>
             /\ out' = <<>>
             /\ err' = "none"
             /\ pc' = "idle"
     /\ (pc = "pages" /\ comp.proposals[i].title = "")
          => /\ pages' = pages
             /\ calls' = calls
             /\ out' = out
             /\ err' = "none"
             /\ IF i < Len(comp.proposals)
                THEN pc' = "pages" /\ i' = i + 1
                ELSE pc' \in {"idle", "audit"}]_vars

\* create_page was called with the empty title and create_if_exists set, on a
\* wiki that has a page: nothing was issued.
C17_Witness ==
  /\ ops = <<"create_page">>
  /\ args.page_title = ""
  /\ args.create_if_exists
  /\ args.body = TocBody("T")
  /\ pages["T"] = Manual
  /\ calls = <<>>
  /\ out = <<>>
  /\ err = "none"

\* The bodies the writers of the page t would save, in the order upload_sheet
\* reaches them: the tocs named t, then the proposals titled t.
WriterBodies(c, t) ==
  LET ts == SelectSeq(c.tocs, LAMBDA x : x.name = t)
      rs == SelectSeq(c.proposals, LAMBDA x : x.title = t)
  IN [k \in 1..Len(ts) |-> TocBody(t)] \o [k \in 1..Len(rs) |-> IdBody(rs[k].key)]

\* C18: when upload_sheet has returned in full mode and no fetch or save has
\* failed, the page of every toc name and of every non-empty record title
\* exists, and every page the run has created (a page that is there and is
\* not one written by hand before the run) has the body generated for a toc
\* of that name or for the key of a record of that title.
C18_FullPublishPostcondition ==
  (ops = <<"upload_sheet">> /\ pc = "idle" /\ err = "none" /\ ~csv_only
     /\ \A k \in 1..Len(calls) : (IsFetch(calls[k]) \/ IsSave(calls[k])) => calls[k].ok)
    => /\ \A k \in 1..Len(comp.tocs) : Exists(pages, comp.tocs[k].name)
       /\ \A k \in 1..Len(comp.proposals) :
            comp.proposals[k].title # "" => Exists(pages, comp.proposals[k].title)
       /\ \A t \in PageTitles :
            (Exists(pages, t) /\ pages[t] # Manual)
              => /\ pages[t] \in Range(WriterBodies(comp, t))
                 /\ pages[t].ns = competition_name
                 /\ pages[t].kind \in {"toc", "id"}

\* A full publish on an empty wiki has returned: the page of the toc T has
\* the toc body, the page of the second record has the body of its key, and
\* a page written by hand is as it was.
C18_Witness ==
  /\ ops = <<"upload_sheet">>
  /\ pc = "idle"
  /\ err = "none"
  /\ ~csv_only
  /\ FailureFree(calls)
  /\ Len(comp.proposals) = 2
  /\ comp.proposals[1].title = "A"
  /\ comp.proposals[2].title = "B"
  /\ pages["T"] = TocBody("T")
  /\ pages["B"] = IdBody(Key(2))
  /\ pages["A"] = Manual

\* The calls of the log that save the page t.
SavesOf(cs, t) == { k \in 1..Len(cs) : IsSave(cs[k]) /\ cs[k].title = t }

\* C19: a page that has two writers or more is saved at most once, and with
\* the body of its first writer, a toc before a record and the records in the
\* order of the dataset.
C19_FirstWriterWins ==
  \A t \in PageTitles :
    Len(WriterBodies(comp, t)) >= 2
      => /\ Cardinality(SavesOf(calls, t)) <= 1
         /\ \A k \in SavesOf(calls, t) : calls[k].body = WriterBodies(comp, t)[1]

\* C19 as amended: a page is saved with success at most once and no save of
\* it follows; the save is that of the first writer in processing order whose
\* fetch and save both succeed, every writer before it having failed.
C19_FirstSuccessfulWriterWins ==
  \A t \in PageTitles :
    \A k \in SavesOf(calls, t) :
      LET n == Cardinality({ j \in 1..k : IsFetch(calls[j]) /\ calls[j].title = t })
      IN /\ n \in 1..Len(WriterBodies(comp, t))
         /\ calls[k].body = WriterBodies(comp, t)[n]
         /\ calls[k].ok => \A j \in (k + 1)..Len(calls) : j \notin SavesOf(calls, t)
         /\ \A j \in 1..(k - 2) :
              (IsFetch(calls[j]) /\ calls[j].title = t)
                => \/ ~calls[j].ok
                   \/ (j + 1 \in SavesOf(calls, t) /\ ~calls[j + 1].ok)

\* Two records share the title B and the page B was absent: upload_sheet has
\* returned, B was fetched twice and saved once, with the key of the first.
C19_Witness ==
  /\ ops = <<"upload_sheet">>
  /\ pc = "idle"
  /\ err = "none"
  /\ Len(comp.proposals) = 2
  /\ comp.proposals[1].title = "B"
  /\ comp.proposals[2].title = "B"
  /\ Cardinality({ j \in 1..Len(calls) : calls[j] = FetchCall("B", TRUE) }) = 2
  /\ SavesOf(calls, "B") # {}
  /\ \A k \in SavesOf(calls, "B") : calls[k] = SaveCall("B", IdBody(Key(1)), TRUE)
  /\ pages["B"] = IdBody(Key(1))

====
